---- MODULE Spec2Model ----
(***************************************************************************)
(* Solarinvest Monitor worker: scheduler, per-brand BullMQ queues, the     *)
(* per-plant Redis lock and the poll pipeline, with the Postgres tables    *)
(* the pipeline writes (plants, metric_snapshots, alerts, poll_logs).      *)
(*                                                                         *)
(* Time is in seconds.  The clock moves from one timer event to the next   *)
(* (scheduler interval, retry backoff, lock expiry); every await of the    *)
(* job processor is one step of a run, so runs interleave at the awaits.   *)
(***************************************************************************)
EXTENDS Integers, Sequences, FiniteSets, TLC

\* ------------------------------------------------------------------ bounds
Plants == {"p1", "p2"}
MaxTime == 1200
MaxJobs == 2
MaxRuns == 2
MaxCrashes == 1
MaxAlarms == 2
MaxSeries == 2
MaxRetryAfter == 60
MaxBrandJobs == 4
MaxMinuteJobs == 21
MaxReady == 2

\* ------------------------------------------------------- program constants
lockTTL == 1200
pollingIntervalSeconds == 600
attempts == 2
backoffDelaySeconds == 5
concurrency == 5
limiterMax == 30
limiterDuration == 60
maxStalledCount == 1
SecondsPerDay == 86400

Brands == {"HUAWEI", "GOODWE"}
brandOf == [p \in Plants |-> IF p = "p1" THEN "HUAWEI" ELSE "GOODWE"]

\* getCapabilities().polling of the brand's adapter
maxConcurrentRequests == [b \in Brands |-> IF b = "HUAWEI" THEN 3 ELSE 4]
maxRequestsPerMinute == [b \in Brands |-> IF b = "HUAWEI" THEN 20 ELSE 25]

IntegrationStatuses == {"ACTIVE", "PAUSED_AUTH_ERROR", "DISABLED_BY_OPERATOR", "PENDING_DOCS"}
PlantStatuses == {"GREEN", "YELLOW", "RED", "GREY"}
PollStatuses == {"SUCCESS", "ERROR"}

VARIABLES
  env,          \* process.env.INTEGRATION_MOCK_MODE of the worker process
  main,         \* where the top level of index.ts stands: off, exited, redis,
                \* shutdown (the signal handler runs)
  workers,      \* Worker objects per brand that startWorker() calls have created
  orphans,      \* next callback times of the running timers of Scheduler
                \* objects that index.ts no longer references
  now,          \* wall clock, seconds
  crashes,      \* process crashes so far
  up,           \* the worker process runs (startWorker has run, no crash since)
  intervalId,   \* Scheduler.intervalId is set (the timer runs)
  nextTick,     \* time of the next setInterval callback
  schedPending, \* plants schedulePlants() calls have found and not yet enqueued
  jobs,         \* BullMQ jobs of all brand queues, in creation order
  runs,         \* processor invocations, in start order
  lock,         \* Redis keys lock:plant:{id}
  plant,        \* table plants
  snapshots,    \* table metric_snapshots
  alerts,       \* table alerts
  pollLogs      \* table poll_logs

vars == <<env, main, workers, orphans, now, crashes, up, intervalId, nextTick, schedPending, jobs, runs, lock,
          plant, snapshots, alerts, pollLogs>>

\* ----------------------------------------------------------------- helpers
Min(S) == CHOOSE x \in S : \A y \in S : x <= y

SeqToSet(s) == {s[i] : i \in 1..Len(s)}

RECURSIVE SetToSeq(_)
SetToSeq(S) == IF S = {} THEN <<>>
               ELSE LET x == CHOOSE y \in S : TRUE IN <<x>> \o SetToSeq(S \ {x})

NoLock == [held |-> FALSE, owner |-> 0, expiry |-> 0]

\* a Redis key with EX is gone once its time to live has passed
LockPresent(p) == lock[p].held /\ now < lock[p].expiry

\* the run that set the key still works under it after its time to live
PollOverdue(p) == lock[p].held /\ now >= lock[p].expiry

LiveJobStates == {"waiting", "active", "delayed"}
LiveJobsOf(q, p) == {j \in 1..Len(q) : q[j].plant = p /\ q[j].state \in LiveJobStates}

FinishedPcs == {"done", "crashed"}

LiveRuns == {r \in 1..Len(runs) : runs[r].pc \notin FinishedPcs}

\* variant: the enumeration has no filter on integration_status
ExistingPlants == {p \in Plants : plant[p].exists}

\* prisma.plant.findMany({ where: { integration_status: 'ACTIVE' } })
ActivePlants == {p \in Plants : plant[p].exists /\ plant[p].integration_status = "ACTIVE"}

\* ------------------------------------------------------------------- Init
\* Redis is empty, no worker runs, the plants in E are seeded
\* (seed-test-plants.ts: integration_status ACTIVE, status GREY), the wall
\* clock shows t
InitState(E, t) ==
  /\ now = t
  /\ workers = 0
  /\ orphans = <<>>
  /\ crashes = 0
  /\ up = FALSE
  /\ intervalId = FALSE
  /\ nextTick = 0
  /\ schedPending = <<>>
  /\ jobs = <<>>
  /\ runs = <<>>
  /\ lock = [p \in Plants |-> NoLock]
  /\ plant = [p \in Plants |->
                IF p \in E
                THEN [exists |-> TRUE, integration_status |-> "ACTIVE", status |-> "GREY"]
                ELSE [exists |-> FALSE, integration_status |-> "PENDING_DOCS",
                      status |-> "GREY"]]
  /\ snapshots = {}
  /\ alerts = <<>>
  /\ pollLogs = <<>>

\* the worker process was launched with INTEGRATION_MOCK_MODE=true, has
\* created its Redis connection and waits for 'ready'
InitWith(E) ==
  /\ InitState(E, 0)
  /\ env = "true"
  /\ main = "redis"

Init == InitWith({"p1"})

\* ============================================================ BullMQ queue
\* One job hash per job id and queue; the queue of a plant is the queue of
\* its brand.  A job id stays taken as long as the job hash exists, whatever
\* the job's state; "removed" marks a hash that retention has dropped.
Job(p, id, att) ==
  [plant |-> p, brand |-> brandOf[p], jobId |-> id, state |-> "waiting",
   attempts |-> att, attemptsMade |-> 0, readyAt |-> 0, token |-> 0, stalled |-> 0]

JobIdTaken(q, b, p, id) ==
  \E j \in 1..Len(q) : /\ q[j].brand = b /\ q[j].plant = p /\ q[j].jobId = id
                       /\ q[j].state # "removed"

\* variant: the add does not look for the job id
queueAddNoDedup(q, p) == Append(q, Job(p, "latest", attempts))

\* queue.add(name, data, {jobId, attempts: 2, ...}) with a job id that is
\* already taken adds nothing
queueAdd(q, p) ==
  IF JobIdTaken(q, brandOf[p], p, "latest") THEN q
  ELSE Append(q, Job(p, "latest", attempts))

\* =========================================================== process entry
\* const mockMode = process.env.INTEGRATION_MOCK_MODE === 'true'
mockMode == env = "true"

\* variant: the top level of index.ts without the mock-mode check
MainNoCheck ==
  /\ main = "off"
  /\ main' = "redis"
  /\ UNCHANGED <<env, workers, orphans, now, crashes, up, intervalId, nextTick, schedPending, jobs, runs,
                 lock, plant, snapshots, alerts, pollLogs>>

\* the top level of index.ts: process.exit(1) unless mockMode, else
\* new Redis(redisUrl) and the registration of the 'ready' handler
Main ==
  /\ main = "off"
  /\ main' = IF ~mockMode THEN "exited" ELSE "redis"
  /\ UNCHANGED <<env, workers, orphans, now, crashes, up, intervalId, nextTick, schedPending, jobs, runs,
                 lock, plant, snapshots, alerts, pollLogs>>

\* ============================================================== Scheduler
\* startWorker() on Redis 'ready': queues and workers are created, then
\* Scheduler.start(): a first schedulePlants() call and the interval timer
startWorker ==
  /\ main = "redis"
  /\ ~up
  /\ up' = TRUE
  /\ intervalId' = TRUE
  /\ nextTick' = now + pollingIntervalSeconds
  /\ schedPending' = schedPending \o SetToSeq(ActivePlants)
  /\ workers' = workers + 1
  /\ UNCHANGED <<env, main, orphans, now, crashes, jobs, runs, lock, plant, snapshots, alerts,
                 pollLogs>>

\* the Redis connection emits 'ready' again after a reconnect: startWorker()
\* runs once more, pushes one more Worker per brand and replaces the
\* Scheduler in the variable scheduler by a new one, which it starts; the
\* timer of the Scheduler it replaces keeps running
RedisReady ==
  /\ main = "redis"
  /\ up
  /\ workers < MaxReady
  /\ workers' = workers + 1
  /\ orphans' = IF intervalId THEN Append(orphans, nextTick) ELSE orphans
  /\ intervalId' = TRUE
  /\ nextTick' = now + pollingIntervalSeconds
  /\ schedPending' = schedPending \o SetToSeq(ActivePlants)
  /\ UNCHANGED <<env, main, now, crashes, up, jobs, runs, lock, plant, snapshots, alerts,
                 pollLogs>>

\* setInterval callback of a Scheduler that index.ts no longer references
OrphanTick(i) ==
  /\ now >= orphans[i]
  /\ orphans' = [orphans EXCEPT ![i] = @ + pollingIntervalSeconds]
  /\ schedPending' = schedPending \o SetToSeq(ActivePlants)
  /\ UNCHANGED <<env, main, workers, now, crashes, up, intervalId, nextTick, jobs, runs, lock,
                 plant, snapshots, alerts, pollLogs>>

\* SIGTERM / SIGINT: shutdown() calls scheduler.stop(), which clears the
\* timer of the Scheduler in the variable scheduler, and then awaits
\* worker.close() of every worker
shutdown ==
  /\ main = "redis"
  /\ main' = "shutdown"
  /\ intervalId' = FALSE
  /\ UNCHANGED <<env, workers, orphans, now, crashes, up, nextTick, schedPending, jobs, runs,
                 lock, plant, snapshots, alerts, pollLogs>>

\* every worker.close() has returned (no job is active any more):
\* redisConnection.quit() and process.exit(0)
ShutdownExit ==
  /\ main = "shutdown"
  /\ LiveRuns = {}
  /\ main' = "exited"
  /\ up' = FALSE
  /\ workers' = 0
  /\ orphans' = <<>>
  /\ schedPending' = <<>>
  /\ UNCHANGED <<env, now, crashes, intervalId, nextTick, jobs, runs, lock, plant, snapshots,
                 alerts, pollLogs>>

\* setInterval callback: schedulePlants() reads the ACTIVE plants
schedulePlants ==
  /\ intervalId
  /\ now >= nextTick
  /\ nextTick' = nextTick + pollingIntervalSeconds
  /\ schedPending' = schedPending \o SetToSeq(ActivePlants)
  /\ UNCHANGED <<env, main, workers, orphans, now, crashes, up, intervalId, jobs, runs, lock, plant, snapshots, alerts, pollLogs>>

\* one iteration of the for loop of schedulePlants(): await queue.add(...)
SchedulerEnqueue ==
  /\ schedPending # <<>>
  /\ LET p == Head(schedPending) IN
       /\ Len(queueAdd(jobs, p)) <= MaxJobs
       /\ jobs' = queueAdd(jobs, p)
       /\ schedPending' = Tail(schedPending)
  /\ UNCHANGED <<env, main, workers, orphans, now, crashes, up, intervalId, nextTick, runs, lock, plant, snapshots, alerts, pollLogs>>

\* variant: an error of queue.add leaves the for loop
SchedulerEnqueueAborts ==
  /\ schedPending # <<>>
  /\ schedPending' = <<>>
  /\ UNCHANGED <<env, main, workers, orphans, now, crashes, up, intervalId, nextTick, jobs, runs, lock, plant,
                 snapshots, alerts, pollLogs>>

\* one iteration of the for loop in which queue.add throws: the catch inside
\* the loop logs the error and the loop goes on with the next plant
SchedulerEnqueueFails ==
  /\ schedPending # <<>>
  /\ schedPending' = Tail(schedPending)
  /\ UNCHANGED <<env, main, workers, orphans, now, crashes, up, intervalId, nextTick, jobs, runs, lock, plant,
                 snapshots, alerts, pollLogs>>

\* scripts/trigger-poll.ts of the monitoring-loop guide: an operator adds a
\* job with id poll:plant:{id}:manual-{Date.now()}, default options
ManualTriggerUpTo(p, n) ==
  /\ plant[p].exists
  /\ Len(jobs) < n
  /\ jobs' = Append(jobs, Job(p, "manual", 1))
  /\ UNCHANGED <<env, main, workers, orphans, now, crashes, up, intervalId, nextTick, schedPending, runs, lock,
                 plant, snapshots, alerts, pollLogs>>

ManualTrigger(p) == ManualTriggerUpTo(p, MaxJobs)

\* removeOnComplete: 100 / removeOnFail: 50: a finished job is dropped once
\* that many younger finished jobs of its queue exist.  The other plants of
\* the brand are not modelled one by one, so the drop can come at any time
\* after the job has finished, or never (fewer plants than the limit).
RetentionEvict(j) ==
  /\ jobs[j].state \in {"completed", "failed"}
  /\ jobs' = [jobs EXCEPT ![j].state = "removed"]
  /\ UNCHANGED <<env, main, workers, orphans, now, crashes, up, intervalId, nextTick, schedPending, runs, lock,
                 plant, snapshots, alerts, pollLogs>>

\* a delayed job (retry backoff) becomes runnable when its delay is over
PromoteDelayed(j) ==
  /\ jobs[j].state = "delayed"
  /\ now >= jobs[j].readyAt
  /\ jobs' = [jobs EXCEPT ![j].state = "waiting", ![j].readyAt = 0]
  /\ UNCHANGED <<env, main, workers, orphans, now, crashes, up, intervalId, nextTick, schedPending, runs, lock,
                 plant, snapshots, alerts, pollLogs>>

\* ================================================================= Worker
NewRun(j) ==
  [plant |-> jobs[j].plant, job |-> j, startedAt |-> now, pc |-> "acquire", err |-> "none",
   errType |-> "none", retryAfterSeconds |-> 0,
   acquired |-> FALSE, branch |-> "none", today |-> 0, lastSeenAt |-> 0,
   alarms |-> <<>>,
   existingAlert |-> 0, existing |-> {}]

\* limiter {max, duration} of the brand's worker: the window opened by the
\* first job start after the window before it ran out, and the starts in it
RECURSIVE LimiterWindow(_, _)
LimiterWindow(b, n) ==
  IF n = 0 THEN [start |-> -limiterDuration, count |-> 0]
  ELSE LET w == LimiterWindow(b, n - 1) IN
    IF jobs[runs[n].job].brand # b THEN w
    ELSE IF runs[n].startedAt >= w.start + limiterDuration
      THEN [start |-> runs[n].startedAt, count |-> 1]
    ELSE [w EXCEPT !.count = @ + 1]

RateLimited(b) ==
  LET w == LimiterWindow(b, Len(runs))
  IN now < w.start + limiterDuration /\ w.count >= limiterMax

\* the worker of the job's brand takes a waiting job and calls the
\* processor; the model follows at most n invocations
WorkerStartUpTo(j, n) ==
  /\ up
  /\ jobs[j].state = "waiting"
  /\ Len(runs) < n
  /\ Cardinality({r \in LiveRuns : jobs[runs[r].job].brand = jobs[j].brand})
       < concurrency * workers
  /\ ~RateLimited(jobs[j].brand)
  /\ runs' = Append(runs, NewRun(j))
  /\ jobs' = [jobs EXCEPT ![j].state = "active", ![j].token = Len(runs) + 1]
  /\ UNCHANGED <<env, main, workers, orphans, now, crashes, up, intervalId, nextTick, schedPending, lock, plant,
                 snapshots, alerts, pollLogs>>

WorkerStart(j) == WorkerStartUpTo(j, MaxRuns)

\* the processor of run r has returned (thrown = FALSE) or thrown
\* (thrown = TRUE); a run whose job was taken over after a stall changes nothing
JobsAfterRun(r, thrown) ==
  LET j == runs[r].job IN
    IF jobs[j].state # "active" \/ jobs[j].token # r THEN jobs
    ELSE IF ~thrown
      THEN [jobs EXCEPT ![j].state = "completed", ![j].token = 0,
                        ![j].attemptsMade = @ + 1]
    ELSE IF jobs[j].attemptsMade + 1 < jobs[j].attempts
      THEN [jobs EXCEPT ![j].state = "delayed", ![j].token = 0,
                        ![j].attemptsMade = @ + 1,
                        ![j].readyAt = now + backoffDelaySeconds]
    ELSE [jobs EXCEPT ![j].state = "failed", ![j].token = 0,
                      ![j].attemptsMade = @ + 1]

\* ======================================================== adapter outcomes
\* enum AdapterErrorType
AdapterErrorTypes == {"AUTH_FAILED", "RATE_LIMIT_EXCEEDED", "NETWORK_TIMEOUT",
                      "INVALID_DATA_FORMAT", "VENDOR_ERROR", "UNKNOWN_ERROR"}

\* an adapter call returns, or throws new AdapterError(type, message,
\* httpStatus, retryAfterSeconds)
Ok == [ok |-> TRUE, type |-> "none", retryAfterSeconds |-> 0]

AdapterError(type, retryAfter) ==
  [ok |-> FALSE, type |-> type, retryAfterSeconds |-> retryAfter]

\* the constructor of BaseMockAdapter cannot read its fixture file
FixtureError == AdapterError("INVALID_DATA_FORMAT", 0)

\* ============================================================= poll pipeline
\* The processor of createPollWorker, one step per await.  p is the plant
\* of the run.
SetRun(r, rec) == [runs EXCEPT ![r] = rec]

Goto(r, pc) == SetRun(r, [runs[r] EXCEPT !.pc = pc])

\* a throw inside the inner try: the inner finally (DEL) runs next, then the
\* catch records the error
Throw(r, name) == SetRun(r, [runs[r] EXCEPT !.pc = "release", !.err = name])

\* redis.set(lockKey, 'locked', 'EX', 1200, 'NX'); on failure the processor
\* returns from the outer try, so only the outer finally (the PollLog) runs
AcquireLock(r) ==
  /\ r \in LiveRuns
  /\ runs[r].pc = "acquire"
  /\ LET p == runs[r].plant IN
       IF ~LockPresent(p)
       THEN /\ lock' = [lock EXCEPT ![p] =
                          [held |-> TRUE, owner |-> r, expiry |-> now + lockTTL]]
            /\ runs' = SetRun(r, [runs[r] EXCEPT !.pc = "load", !.acquired = TRUE])
       ELSE /\ lock' = lock
            /\ runs' = SetRun(r, [runs[r] EXCEPT !.pc = "log", !.branch = "locked"])
  /\ UNCHANGED <<env, main, workers, orphans, now, crashes, up, intervalId, nextTick, schedPending, jobs, plant,
                 snapshots, alerts, pollLogs>>

\* variant: the inactive skip returns before the inner try, past the DEL
LoadPlantSkipKeepsLock(r) ==
  /\ r \in LiveRuns
  /\ runs[r].pc = "load"
  /\ LET p == runs[r].plant IN
       runs' = IF ~plant[p].exists
                 THEN SetRun(r, [runs[r] EXCEPT !.pc = "release", !.err = "Error",
                                                !.branch = "notFound"])
               ELSE IF plant[p].integration_status # "ACTIVE"
                 THEN SetRun(r, [runs[r] EXCEPT !.pc = "log", !.branch = "inactive"])
               ELSE SetRun(r, [runs[r] EXCEPT !.pc = "summary", !.branch = "poll"])
  /\ UNCHANGED <<env, main, workers, orphans, now, crashes, up, intervalId, nextTick, schedPending, jobs, lock, plant,
                 snapshots, alerts, pollLogs>>

\* variant: no check of integration_status after the plant is loaded
LoadPlantIgnoresStatus(r) ==
  /\ r \in LiveRuns
  /\ runs[r].pc = "load"
  /\ LET p == runs[r].plant IN
       runs' = IF ~plant[p].exists
                 THEN SetRun(r, [runs[r] EXCEPT !.pc = "release", !.err = "Error",
                                                !.branch = "notFound"])
               ELSE SetRun(r, [runs[r] EXCEPT !.pc = "summary", !.branch = "poll"])
  /\ UNCHANGED <<env, main, workers, orphans, now, crashes, up, intervalId, nextTick, schedPending, jobs, lock, plant,
                 snapshots, alerts, pollLogs>>

\* prisma.plant.findUnique, the not-found throw and the inactive skip
LoadPlant(r) ==
  /\ r \in LiveRuns
  /\ runs[r].pc = "load"
  /\ LET p == runs[r].plant IN
       runs' = IF ~plant[p].exists
                 THEN SetRun(r, [runs[r] EXCEPT !.pc = "release", !.err = "Error",
                                                !.branch = "notFound"])
               ELSE IF plant[p].integration_status # "ACTIVE"
                 THEN SetRun(r, [runs[r] EXCEPT !.pc = "release", !.branch = "inactive"])
               ELSE SetRun(r, [runs[r] EXCEPT !.pc = "summary", !.branch = "poll"])
  /\ UNCHANGED <<env, main, workers, orphans, now, crashes, up, intervalId, nextTick, schedPending, jobs, lock, plant,
                 snapshots, alerts, pollLogs>>

\* new Date().toISOString().split('T')[0]: the UTC calendar day of an instant
UtcDay(t) == t \div SecondsPerDay

\* plants.timezone of the seeded plants
timezone == [p \in Plants |-> "America/Sao_Paulo"]

\* seconds east of UTC of an IANA zone (the zones of the seed have had no
\* daylight saving time since 2019)
UtcOffset(tz) ==
  IF tz \in {"America/Sao_Paulo", "America/Fortaleza"} THEN -(3 * 3600) ELSE 0

\* the calendar day of instant t on the clocks of zone tz
LocalDay(t, tz) == (t + UtcOffset(tz)) \div SecondsPerDay

\* unique index metric_snapshots_plant_id_date_key
\* A table row is told from the other rows with its key by copy (the id
\* column has no other role): copy 0 is the first row of a key.
SnapshotsAt(S, p, d) == {x \in S : x.plant = p /\ x.date = d}

SnapshotRow(S, p, d, energy, seen) ==
  [plant |-> p, date |-> d, today_energy_kwh |-> energy, last_seen_at |-> seen,
   copy |-> Cardinality(SnapshotsAt(S, p, d))]

\* variant: no unique index on (plant_id, date)
SnapshotKeyNeverTaken(S, p, d) == FALSE

SnapshotKeyTaken(S, p, d) == SnapshotsAt(S, p, d) # {}

\* prisma.metricSnapshot.upsert on plant_id_date
upsertSnapshot(S, p, d, energy, seen) ==
  IF SnapshotKeyTaken(S, p, d)
  THEN LET old == CHOOSE x \in SnapshotsAt(S, p, d) :
                    \A y \in SnapshotsAt(S, p, d) : x.copy <= y.copy
       IN (S \ {old}) \cup {[old EXCEPT !.today_energy_kwh = energy,
                                         !.last_seen_at = seen]}
  ELSE S \cup {SnapshotRow(S, p, d, energy, seen)}

\* getAdapter(brand) and adapter.getPlantSummary, then the snapshot upsert.
\* The adapter returns a summary (todayEnergyKWh = energy, lastSeenAt = now -
\* age) or throws the AdapterError of outcome; the catch block holds the
\* error object, of which it reads the name only.
GetSummaryAndUpsert(r, outcome, energy, age) ==
  /\ r \in LiveRuns
  /\ runs[r].pc = "summary"
  /\ LET p == runs[r].plant IN
       IF ~outcome.ok
       THEN /\ runs' = SetRun(r, [runs[r] EXCEPT
                          !.pc = "release", !.err = "AdapterError",
                          !.errType = outcome.type,
                          !.retryAfterSeconds = outcome.retryAfterSeconds])
            /\ snapshots' = snapshots
       ELSE IF ~plant[p].exists      \* metric_snapshots_plant_id_fkey
       THEN /\ runs' = Throw(r, "PrismaClientKnownRequestError")
            /\ snapshots' = snapshots
       ELSE /\ snapshots' = upsertSnapshot(snapshots, p, UtcDay(now), energy, now - age)
            /\ runs' = SetRun(r, [runs[r] EXCEPT !.pc = "status", !.today = UtcDay(now),
                                                 !.lastSeenAt = now - age])
  /\ UNCHANGED <<env, main, workers, orphans, now, crashes, up, intervalId, nextTick, schedPending, jobs, lock, plant,
                 alerts, pollLogs>>

\* the status updatePlantStatus computes for plant p seen last at time seen
computeStatus(p, seen) ==
  LET base == IF plant[p].integration_status # "ACTIVE" THEN "GREY"
              ELSE IF now - seen > 24 * 3600 THEN "RED"
              ELSE IF now - seen > 2 * 3600 THEN "YELLOW"
              ELSE "GREEN"
      redAlerts == {i \in 1..Len(alerts) : /\ alerts[i].plant = p
                                           /\ alerts[i].state = "NEW"
                                           /\ alerts[i].severity = "CRITICAL"}
  IN IF redAlerts # {} THEN "RED" ELSE base

updatePlantStatus(r) ==
  /\ r \in LiveRuns
  /\ runs[r].pc = "status"
  /\ LET p == runs[r].plant IN
       plant' = IF ~plant[p].exists THEN plant
                ELSE [plant EXCEPT ![p].status = computeStatus(p, runs[r].lastSeenAt)]
  /\ runs' = Goto(r, "alarms")
  /\ UNCHANGED <<env, main, workers, orphans, now, crashes, up, intervalId, nextTick, schedPending, jobs, lock,
                 snapshots, alerts, pollLogs>>

\* ================================================================== alerts
Null == "<null>"            \* SQL NULL in a nullable column
Undefined == "<undefined>"  \* an optional field the adapter left out

ActiveStates == {"NEW", "ACKED"}

\* prisma.alert.findFirst({where: {plant_id, type, vendor_alarm_code,
\* device_sn, state: {in: [NEW, ACKED]}}}): a filter whose value is undefined
\* is no filter; a string filter never matches NULL
MatchingAlerts(A, p, type, code, sn) ==
  {i \in 1..Len(A) : /\ A[i].plant = p
                     /\ A[i].type = type
                     /\ (code # Undefined => A[i].vendor_alarm_code = code)
                     /\ (sn # Undefined => A[i].device_sn = sn)
                     /\ A[i].state \in ActiveStates}

AlertRow(p, type, code, sn, severity) ==
  [plant |-> p, type |-> type,
   vendor_alarm_code |-> IF code = Undefined THEN Null ELSE code,
   device_sn |-> IF sn = Undefined THEN Null ELSE sn,
   severity |-> severity, state |-> "NEW", last_seen_at |-> now]

\* one iteration of the for loop of processAlarms on the alert table A
processAlarm(A, p, alarm) ==
  LET found == MatchingAlerts(A, p, "MOCK_FAULT", alarm.vendorAlarmCode, alarm.deviceSn)
  IN IF found # {}
     THEN IF alarm.isActive
          THEN [A EXCEPT ![Min(found)].last_seen_at = now]
          ELSE [A EXCEPT ![Min(found)].last_seen_at = now,
                         ![Min(found)].state = "RESOLVED"]
     ELSE IF alarm.isActive
          THEN Append(A, AlertRow(p, "MOCK_FAULT", alarm.vendorAlarmCode,
                                  alarm.deviceSn, alarm.severity))
          ELSE A

\* BaseMockAdapter.getAlarmsSince: the alarms of the fixture that occurred
\* at or after since, in file order
getAlarmsSince(mockAlarms, since) ==
  SelectSeq(mockAlarms, LAMBDA a : a.occurredAt >= since)

\* const since = new Date(Date.now() - 24 h); adapter.getAlarmsSince(since)
\* on a fixture whose alarms are mockAlarms
FetchAlarms(r, mockAlarms) ==
  /\ r \in LiveRuns
  /\ runs[r].pc = "alarms"
  /\ LET response == getAlarmsSince(mockAlarms, now - 24 * 3600) IN
       runs' = SetRun(r, [runs[r] EXCEPT !.alarms = response,
                            !.pc = IF response = <<>> THEN "backfill" ELSE "alarmLoop"])
  /\ UNCHANGED <<env, main, workers, orphans, now, crashes, up, intervalId, nextTick, schedPending, jobs, lock, plant,
                 snapshots, alerts, pollLogs>>

\* adapter.getAlarmsSince throws: the catch of processAlarms logs the error
\* and processAlarms returns
FetchAlarmsFails(r) ==
  /\ r \in LiveRuns
  /\ runs[r].pc = "alarms"
  /\ runs' = SetRun(r, [runs[r] EXCEPT !.pc = "backfill", !.branch = "alarmsFailed"])
  /\ UNCHANGED <<env, main, workers, orphans, now, crashes, up, intervalId, nextTick, schedPending, jobs, lock, plant,
                 snapshots, alerts, pollLogs>>

\* loop body; a store error (alerts_plant_id_fkey after the plant was
\* deleted) is caught by processAlarms, which then returns
ProcessAlarmStep(r) ==
  /\ r \in LiveRuns
  /\ runs[r].pc = "alarmLoop"
  /\ LET p == runs[r].plant
         rest == Tail(runs[r].alarms)
     IN IF ~plant[p].exists
        THEN /\ alerts' = alerts
             /\ runs' = SetRun(r, [runs[r] EXCEPT !.alarms = <<>>, !.pc = "backfill"])
        ELSE /\ alerts' = processAlarm(alerts, p, Head(runs[r].alarms))
             /\ runs' = SetRun(r, [runs[r] EXCEPT !.alarms = rest,
                                     !.pc = IF rest = <<>> THEN "backfill" ELSE "alarmLoop"])
  /\ UNCHANGED <<env, main, workers, orphans, now, crashes, up, intervalId, nextTick, schedPending, jobs, lock, plant,
                 snapshots, pollLogs>>

\* The loop body of processAlarms await by await, for polls that meet other
\* writers of the alert table.  findFirst: existingAlert is the row found
\* (its id), 0 for null
AlarmFind(r) ==
  /\ r \in LiveRuns
  /\ runs[r].pc = "alarmLoop"
  /\ LET alarm == Head(runs[r].alarms)
         found == MatchingAlerts(alerts, runs[r].plant, "MOCK_FAULT",
                                 alarm.vendorAlarmCode, alarm.deviceSn)
     IN runs' = SetRun(r, [runs[r] EXCEPT
                  !.pc = "alarmWrite",
                  !.existingAlert = IF found # {} THEN Min(found) ELSE 0])
  /\ UNCHANGED <<env, main, workers, orphans, now, crashes, up, intervalId, nextTick, schedPending, jobs,
                 lock, plant, snapshots, alerts, pollLogs>>

\* prisma.alert.update({where: {id: existingAlert.id}}) or
\* prisma.alert.create, then the update to RESOLVED of an alarm that is no
\* longer active
AlarmWrite(r) ==
  /\ r \in LiveRuns
  /\ runs[r].pc = "alarmWrite"
  /\ LET p == runs[r].plant
         alarm == Head(runs[r].alarms)
         rest == Tail(runs[r].alarms)
         i == runs[r].existingAlert
     IN IF ~plant[p].exists
        THEN /\ alerts' = alerts
             /\ runs' = SetRun(r, [runs[r] EXCEPT !.alarms = <<>>, !.pc = "backfill",
                                                  !.existingAlert = 0])
        ELSE /\ alerts' =
                  IF i # 0
                  THEN IF alarm.isActive
                       THEN [alerts EXCEPT ![i].last_seen_at = now]
                       ELSE [alerts EXCEPT ![i].last_seen_at = now,
                                           ![i].state = "RESOLVED"]
                  ELSE IF alarm.isActive
                       THEN Append(alerts, AlertRow(p, "MOCK_FAULT", alarm.vendorAlarmCode,
                                                    alarm.deviceSn, alarm.severity))
                       ELSE alerts
             /\ runs' = SetRun(r, [runs[r] EXCEPT
                          !.alarms = rest, !.existingAlert = 0,
                          !.pc = IF rest = <<>> THEN "backfill" ELSE "alarmLoop"])
  /\ UNCHANGED <<env, main, workers, orphans, now, crashes, up, intervalId, nextTick, schedPending, jobs,
                 lock, plant, snapshots, pollLogs>>

\* the for loop of processAlarms over the list the adapter returned
RECURSIVE processAlarms(_, _, _)
processAlarms(A, p, list) ==
  IF list = <<>> THEN A
  ELSE processAlarms(processAlarm(A, p, Head(list)), p, Tail(list))

\* createOrUpdateLowGenAlert / the raise branch of checkOffline
\* (setSeverity: the update writes the severity)
raiseDerived(A, p, type, severity, setSeverity) ==
  LET found == MatchingAlerts(A, p, type, Undefined, Undefined)
  IN IF found # {}
     THEN IF setSeverity
          THEN [A EXCEPT ![Min(found)].severity = severity,
                         ![Min(found)].last_seen_at = now]
          ELSE [A EXCEPT ![Min(found)].last_seen_at = now]
     ELSE Append(A, AlertRow(p, type, Undefined, Undefined, severity))

\* resolveLowGenAlert / the resolve branch of checkOffline
resolveDerived(A, p, type) ==
  LET found == MatchingAlerts(A, p, type, Undefined, Undefined)
  IN IF found # {} THEN [A EXCEPT ![Min(found)].state = "RESOLVED"] ELSE A

\* ================================================================ backfill
\* the dates D-3..D-0 of backfillMetrics that have no snapshot of plant p
BackfillDays == {UtcDay(now) - i : i \in 0..3}

ExistingDates(p) ==
  {x.date : x \in {y \in snapshots : /\ y.plant = p
                                     /\ y.date >= UtcDay(now) - 3
                                     /\ y.date <= UtcDay(now)}}

\* prisma.metricSnapshot.findMany of backfillMetrics; no gap: return
BackfillFind(r) ==
  /\ r \in LiveRuns
  /\ runs[r].pc = "backfill"
  /\ LET p == runs[r].plant
         existing == ExistingDates(p)
     IN runs' = IF BackfillDays \subseteq existing THEN Goto(r, "lowgen")
                ELSE SetRun(r, [runs[r] EXCEPT !.pc = "backfillInsert",
                                               !.existing = existing])
  /\ UNCHANGED <<env, main, workers, orphans, now, crashes, up, intervalId, nextTick, schedPending, jobs, lock, plant,
                 snapshots, alerts, pollLogs>>

\* variant: the loop writes every point of the series with an upsert
RECURSIVE upsertSnapshots(_, _, _, _)
upsertSnapshots(S, p, points, existing) ==
  IF points = <<>> THEN S
  ELSE LET pt == Head(points) IN
    IF ~plant[p].exists THEN S
    ELSE upsertSnapshots(upsertSnapshot(S, p, pt.date, pt.energyKWh, now),
                         p, Tail(points), existing)

\* the create loop over series.dataPoints: a point whose date was not in
\* existingDates is inserted; an insert the store rejects (unique index,
\* foreign key) throws, and the catch of backfillMetrics ends the loop
RECURSIVE createSnapshots(_, _, _, _)
createSnapshots(S, p, points, existing) ==
  IF points = <<>> THEN S
  ELSE LET pt == Head(points) IN
    IF pt.date \in existing THEN createSnapshots(S, p, Tail(points), existing)
    ELSE IF SnapshotKeyTaken(S, p, pt.date) \/ ~plant[p].exists THEN S
    ELSE createSnapshots(S \cup {SnapshotRow(S, p, pt.date, pt.energyKWh, now)},
                         p, Tail(points), existing)

\* adapter.getDailyEnergySeries(startDate = first missing, endDate = last
\* missing) returns the fixture's points inside the range, in file order
BackfillInsert(r, points) ==
  /\ r \in LiveRuns
  /\ runs[r].pc = "backfillInsert"
  /\ LET p == runs[r].plant
         missing == BackfillDays \ runs[r].existing
         lo == Min(missing)
         hi == -Min({-d : d \in missing})
     IN /\ \A i \in 1..Len(points) : points[i].date >= lo /\ points[i].date <= hi
        /\ snapshots' = createSnapshots(snapshots, p, points, runs[r].existing)
  /\ runs' = SetRun(r, [runs[r] EXCEPT !.pc = "lowgen", !.existing = {}])
  /\ UNCHANGED <<env, main, workers, orphans, now, crashes, up, intervalId, nextTick, schedPending, jobs, lock, plant,
                 alerts, pollLogs>>

\* ========================================================= low generation
History(p) ==
  {x \in snapshots : /\ x.plant = p
                     /\ x.date >= UtcDay(now) - 7
                     /\ x.date < UtcDay(now)}

\* energies.sort((a, b) => a - b)[Math.floor(energies.length / 2)]
Median(H) ==
  LET k == Cardinality(H) \div 2
      E == {h.today_energy_kwh : h \in H}
  IN CHOOSE x \in E : /\ Cardinality({h \in H : h.today_energy_kwh < x}) <= k
                      /\ k < Cardinality({h \in H : h.today_energy_kwh <= x})

TodaySnapshots(p) == {x \in snapshots : x.plant = p /\ x.date >= UtcDay(now)}

\* the level checkLowGeneration finds: RED below 10% of the median, YELLOW
\* below 30%, NONE otherwise or without three days of history
LowGenLevel(p) ==
  LET H == History(p)
      T == TodaySnapshots(p)
  IN IF Cardinality(H) < 3 \/ T = {} THEN "NONE"
     ELSE LET todayEnergy == (CHOOSE x \in T : TRUE).today_energy_kwh
              median == Median(H)
          IN IF 10 * todayEnergy < median THEN "RED"
             ELSE IF 10 * todayEnergy < 3 * median THEN "YELLOW"
             ELSE "NONE"

\* variant: the thresholds are inclusive (today <= 10%, today <= 30%)
lowGenAlertsUpTo(A, p) ==
  LET H == History(p)
      T == TodaySnapshots(p)
  IN IF Cardinality(H) < 3 \/ T = {} THEN A
     ELSE LET todayEnergy == (CHOOSE x \in T : TRUE).today_energy_kwh
              median == Median(H)
          IN IF 10 * todayEnergy <= median
               THEN raiseDerived(A, p, "LOW_GENERATION", "CRITICAL", TRUE)
             ELSE IF 10 * todayEnergy <= 3 * median
               THEN raiseDerived(A, p, "LOW_GENERATION", "HIGH", TRUE)
             ELSE resolveDerived(A, p, "LOW_GENERATION")

\* checkLowGeneration on the alert table A (thresholds 10% and 30% of the
\* median, compared without fractions)
lowGenAlerts(A, p) ==
  LET H == History(p)
      T == TodaySnapshots(p)
  IN IF Cardinality(H) < 3 \/ T = {} THEN A
     ELSE LET todayEnergy == (CHOOSE x \in T : TRUE).today_energy_kwh
              median == Median(H)
          IN IF 10 * todayEnergy < median
               THEN raiseDerived(A, p, "LOW_GENERATION", "CRITICAL", TRUE)
             ELSE IF 10 * todayEnergy < 3 * median
               THEN raiseDerived(A, p, "LOW_GENERATION", "HIGH", TRUE)
             ELSE resolveDerived(A, p, "LOW_GENERATION")

checkLowGeneration(r) ==
  /\ r \in LiveRuns
  /\ runs[r].pc = "lowgen"
  /\ LET p == runs[r].plant IN
       alerts' = IF plant[p].exists THEN lowGenAlerts(alerts, p) ELSE alerts
  /\ runs' = Goto(r, "offline")
  /\ UNCHANGED <<env, main, workers, orphans, now, crashes, up, intervalId, nextTick, schedPending, jobs, lock, plant,
                 snapshots, pollLogs>>

\* ================================================================ offline
\* variant: the alert is raised from 24 hours on
offlineAlertsFrom24(A, p, seen) ==
  IF now - seen >= 24 * 3600
  THEN raiseDerived(A, p, "OFFLINE", "CRITICAL", FALSE)
  ELSE resolveDerived(A, p, "OFFLINE")

\* hoursSinceLastSeen > 24: update or create; otherwise resolve
offlineAlerts(A, p, seen) ==
  IF now - seen > 24 * 3600
  THEN raiseDerived(A, p, "OFFLINE", "CRITICAL", FALSE)
  ELSE resolveDerived(A, p, "OFFLINE")

checkOffline(r) ==
  /\ r \in LiveRuns
  /\ runs[r].pc = "offline"
  /\ LET p == runs[r].plant IN
       alerts' = IF plant[p].exists THEN offlineAlerts(alerts, p, runs[r].lastSeenAt)
                 ELSE alerts
  /\ runs' = Goto(r, "release")
  /\ UNCHANGED <<env, main, workers, orphans, now, crashes, up, intervalId, nextTick, schedPending, jobs, lock, plant,
                 snapshots, pollLogs>>

\* ======================================================= release and audit
\* inner finally: redis.del(lockKey)
ReleaseLock(r) ==
  /\ r \in LiveRuns
  /\ runs[r].pc = "release"
  /\ lock' = [lock EXCEPT ![runs[r].plant] = NoLock]
  /\ runs' = SetRun(r, [runs[r] EXCEPT !.pc = "log", !.today = 0, !.lastSeenAt = 0])
  /\ UNCHANGED <<env, main, workers, orphans, now, crashes, up, intervalId, nextTick, schedPending, jobs, plant,
                 snapshots, alerts, pollLogs>>

PollLogRow(r) ==
  [plant |-> runs[r].plant, job_type |-> "POLL",
   status |-> IF runs[r].err = "none" THEN "SUCCESS" ELSE "ERROR",
   adapter_error_type |-> IF runs[r].err = "none" THEN Null ELSE runs[r].err,
   run |-> r]

\* outer finally: prisma.pollLog.create.  poll_logs_plant_id_fkey rejects a
\* row whose plant does not exist; the processor then throws out of the
\* finally and the job attempt fails.
WritePollLog(r) ==
  /\ r \in LiveRuns
  /\ runs[r].pc = "log"
  /\ IF plant[runs[r].plant].exists
     THEN /\ pollLogs' = Append(pollLogs, PollLogRow(r))
          /\ jobs' = JobsAfterRun(r, FALSE)
     ELSE /\ pollLogs' = pollLogs
          /\ jobs' = JobsAfterRun(r, TRUE)
  /\ runs' = Goto(r, "done")
  /\ UNCHANGED <<env, main, workers, orphans, now, crashes, up, intervalId, nextTick, schedPending, lock, plant,
                 snapshots, alerts>>

\* ============================================================ environment
\* the worker process dies: every processor invocation in it stops where it
\* is, the scheduler timer is gone; Redis and Postgres keep their state
ProcessCrash ==
  /\ up
  /\ crashes < MaxCrashes
  /\ crashes' = crashes + 1
  /\ up' = FALSE
  /\ intervalId' = FALSE
  /\ nextTick' = 0
  /\ schedPending' = <<>>
  /\ workers' = 0
  /\ orphans' = <<>>
  /\ runs' = [r \in 1..Len(runs) |->
                IF runs[r].pc \in FinishedPcs THEN runs[r]
                ELSE [runs[r] EXCEPT !.pc = "crashed", !.today = 0, !.lastSeenAt = 0,
                                     !.alarms = <<>>, !.existingAlert = 0,
                                     !.existing = {}]]
  /\ UNCHANGED <<env, main, now, jobs, lock, plant, snapshots, alerts, pollLogs>>

\* BullMQ stalled-job check of a running worker: an active job whose worker
\* is gone goes back to waiting, or fails after maxStalledCount stalls
MoveStalled(j) ==
  /\ up
  /\ jobs[j].state = "active"
  /\ runs[jobs[j].token].pc = "crashed"
  /\ jobs' = IF jobs[j].stalled + 1 > maxStalledCount
             THEN [jobs EXCEPT ![j].state = "failed", ![j].token = 0]
             ELSE [jobs EXCEPT ![j].state = "waiting", ![j].token = 0,
                               ![j].stalled = @ + 1]
  /\ UNCHANGED <<env, main, workers, orphans, now, crashes, up, intervalId, nextTick, schedPending, runs, lock,
                 plant, snapshots, alerts, pollLogs>>

\* an administrator changes integration_status (status is left as it is)
AdminSetIntegration(p, st) ==
  /\ plant[p].exists
  /\ plant[p].integration_status # st
  /\ plant' = [plant EXCEPT ![p].integration_status = st]
  /\ UNCHANGED <<env, main, workers, orphans, now, crashes, up, intervalId, nextTick, schedPending, jobs, runs,
                 lock, snapshots, alerts, pollLogs>>

\* an administrator deletes a plant; ON DELETE CASCADE removes its rows
DeletePlant(p) ==
  /\ plant[p].exists
  /\ plant' = [plant EXCEPT ![p] = [exists |-> FALSE,
                                    integration_status |-> "PENDING_DOCS",
                                    status |-> "GREY"]]
  /\ snapshots' = {x \in snapshots : x.plant # p}
  /\ alerts' = SelectSeq(alerts, LAMBDA a : a.plant # p)
  /\ pollLogs' = SelectSeq(pollLogs, LAMBDA l : l.plant # p)
  /\ UNCHANGED <<env, main, workers, orphans, now, crashes, up, intervalId, nextTick, schedPending, jobs, runs, lock>>

\* an operator acknowledges an alert (API)
AckAlert(i) ==
  /\ alerts[i].state = "NEW"
  /\ alerts' = [alerts EXCEPT ![i].state = "ACKED"]
  /\ UNCHANGED <<env, main, workers, orphans, now, crashes, up, intervalId, nextTick, schedPending, jobs, runs,
                 lock, plant, snapshots, pollLogs>>

\* an operator resolves an acknowledged alert (API)
ResolveAlert(i) ==
  /\ alerts[i].state = "ACKED"
  /\ alerts' = [alerts EXCEPT ![i].state = "RESOLVED"]
  /\ UNCHANGED <<env, main, workers, orphans, now, crashes, up, intervalId, nextTick, schedPending, jobs,
                 runs, lock, plant, snapshots, pollLogs>>

\* the clock moves to the next timer event
TimerEvents ==
  (IF intervalId THEN {nextTick} ELSE {})
  \cup {jobs[j].readyAt : j \in {k \in 1..Len(jobs) : jobs[k].state = "delayed"}}
  \cup {lock[p].expiry : p \in {q \in Plants : lock[q].held}}
  \cup SeqToSet(orphans)
  \cup {now + pollingIntervalSeconds}

AdvanceTimeUntil(limit) ==
  /\ ~(intervalId /\ now >= nextTick)
  /\ \A i \in 1..Len(orphans) : now < orphans[i]
  /\ LET next == Min({t \in TimerEvents : t > now}) IN
       /\ next <= limit
       /\ now' = next
  /\ UNCHANGED <<env, main, workers, orphans, crashes, up, intervalId, nextTick, schedPending, jobs, runs, lock,
                 plant, snapshots, alerts, pollLogs>>

AdvanceTime == AdvanceTimeUntil(MaxTime)

\* ================================================================== inputs
\* what the fixtures can hold
Alarms ==
  [vendorAlarmCode : {"GRID_FAULT_001"}, deviceSn : {Undefined, "", "INV-1"},
   isActive : BOOLEAN, severity : {"MEDIUM"}, occurredAt : {0}]

RECURSIVE SeqsUpTo(_, _)
SeqsUpTo(S, n) ==
  IF n = 0 THEN {<<>>}
  ELSE LET shorter == SeqsUpTo(S, n - 1)
       IN shorter \cup {Append(q, x) : q \in shorter, x \in S}

OneAlarm == [vendorAlarmCode |-> "GRID_FAULT_001", deviceSn |-> "INV-1",
             isActive |-> TRUE, severity |-> "MEDIUM", occurredAt |-> 0]

\* an alarm the vendor reports as cleared
ClearedAlarm == [OneAlarm EXCEPT !.isActive = FALSE]

\* an alarm that occurred 23 h 55 min before time 0: inside the 24 h window
\* of a poll at time 0, outside the window of a poll one period later
OldAlarm == [OneAlarm EXCEPT !.occurredAt = 300 - 24 * 3600]

OldCleared == [OldAlarm EXCEPT !.isActive = FALSE]

\* an alarm the vendor maps to severity CRITICAL
CriticalAlarm == [OneAlarm EXCEPT !.severity = "CRITICAL"]

\* a daily_series with the three days before today, 100 kWh each
WeekSeries ==
  <<[date |-> UtcDay(now) - 3, energyKWh |-> 100],
    [date |-> UtcDay(now) - 2, energyKWh |-> 100],
    [date |-> UtcDay(now) - 1, energyKWh |-> 100]>>

\* the daily_series of the fixture holds yesterday and today
SeriesDays == {UtcDay(now) - 1, UtcDay(now)}

SeriesPoints(En) == [date : SeriesDays, energyKWh : En]

\* one step of run r; the parameters are the fixture contents the step may
\* meet: adapter outcomes, today's energies, ages of lastSeenAt, alarm
\* lists, daily series
RunStep(r, Oks, En, Ag, Resp, Ser) ==
  \/ AcquireLock(r)
  \/ LoadPlant(r)
  \/ \E o \in Oks, e \in En, a \in Ag : GetSummaryAndUpsert(r, o, e, a)
  \/ updatePlantStatus(r)
  \/ \E resp \in Resp : FetchAlarms(r, resp)
  \/ ProcessAlarmStep(r)
  \/ BackfillFind(r)
  \/ \E pts \in Ser : BackfillInsert(r, pts)
  \/ checkLowGeneration(r)
  \/ checkOffline(r)
  \/ ReleaseLock(r)
  \/ WritePollLog(r)

\* RunStep with the alarm loop await by await
RunStepByAwait(r, Oks, En, Ag, Resp, Ser) ==
  \/ AcquireLock(r)
  \/ LoadPlant(r)
  \/ \E o \in Oks, e \in En, a \in Ag : GetSummaryAndUpsert(r, o, e, a)
  \/ updatePlantStatus(r)
  \/ \E resp \in Resp : FetchAlarms(r, resp)
  \/ AlarmFind(r)
  \/ AlarmWrite(r)
  \/ BackfillFind(r)
  \/ \E pts \in Ser : BackfillInsert(r, pts)
  \/ checkLowGeneration(r)
  \/ checkOffline(r)
  \/ ReleaseLock(r)
  \/ WritePollLog(r)

\* scheduler, queue, worker and clock
Core ==
  \/ startWorker
  \/ schedulePlants
  \/ SchedulerEnqueue
  \/ \E j \in 1..Len(jobs) : WorkerStart(j)
  \/ AdvanceTime

\* ---------------------------------------- Spec: the lock under slow jobs
\* one plant, scheduler jobs and manually triggered jobs, jobs of any length
Next ==
  \/ Core
  \/ \E r \in 1..Len(runs) :
       RunStep(r, {Ok, FixtureError}, {30}, {0}, {<<OneAlarm>>}, {<<>>})
  \/ \E p \in Plants : ManualTrigger(p)

Spec == Init /\ [][Next]_vars

\* ------------------------- SpecExit: every exit path of the job processor
\* plants are paused, resumed and deleted while jobs are queued or running
NextExit ==
  \/ Core
  \/ \E r \in 1..Len(runs) :
       RunStep(r, {Ok, FixtureError}, {30}, {0}, {<<OneAlarm>>}, {<<>>})
  \/ \E j \in 1..Len(jobs) : RetentionEvict(j)
  \/ \E p \in Plants : AdminSetIntegration(p, "DISABLED_BY_OPERATOR")
  \/ \E p \in Plants : AdminSetIntegration(p, "ACTIVE")
  \/ \E p \in Plants : DeletePlant(p)
  \/ \E j \in 1..Len(jobs) : PromoteDelayed(j)

SpecExit == Init /\ [][NextExit]_vars

\* ------------------- SpecQueue: job identity, retention, crash and restart
NextQueue ==
  \/ Core
  \/ \E r \in 1..Len(runs) :
       RunStep(r, {Ok}, {30}, {0}, {<<OneAlarm>>}, {<<>>})
  \/ \E j \in 1..Len(jobs) : RetentionEvict(j)
  \/ ProcessCrash
  \/ \E j \in 1..Len(jobs) : MoveStalled(j)

SpecQueue == Init /\ [][NextQueue]_vars

\* ------------- SpecAlerts: alarm reconciliation over every alarm list
\* successive polls within one scheduler period: the job of the first
\* schedulePlants() pass, then jobs triggered by hand, each after the poll
\* before it has ended
NextAlerts ==
  \/ startWorker
  \/ SchedulerEnqueue
  \/ \E j \in 1..Len(jobs) : WorkerStart(j)
  \/ \E r \in 1..Len(runs) :
       RunStep(r, {Ok}, {30}, {0, 90000}, SeqsUpTo(Alarms, MaxAlarms), {<<>>})
  \/ \E p \in Plants : LiveJobsOf(jobs, p) = {} /\ ManualTrigger(p)
  \/ \E i \in 1..Len(alerts) : AckAlert(i)

SpecAlerts == Init /\ [][NextAlerts]_vars

\* ------------ SpecSnap: snapshot upserts and backfill inserts, any series
\* a poll that outlives its lock; the operator triggers polls by hand once
\* the lock of the running poll has timed out, so polls of one plant overlap
NextSnap ==
  \/ Core
  \/ \E r \in 1..Len(runs) :
       RunStep(r, {Ok}, {30}, {0}, {<<ClearedAlarm>>},
               SeqsUpTo(SeriesPoints({30}), MaxSeries))
  \/ \E p \in Plants : PollOverdue(p) /\ ManualTrigger(p)

SpecSnap == Init /\ [][NextSnap]_vars

\* ---------- SpecErr: failing adapter calls, invalid summaries, retries
\* the errors an adapter may throw under the VendorAdapter contract
AdapterFailures ==
  {AdapterError("AUTH_FAILED", 0), AdapterError("NETWORK_TIMEOUT", 0),
   AdapterError("RATE_LIMIT_EXCEEDED", MaxRetryAfter)}

NextErr ==
  \/ Core
  \/ \E r \in 1..Len(runs) :
       RunStep(r, {Ok} \cup AdapterFailures, {30, -5}, {0}, {<<OneAlarm>>}, {<<>>})
  \/ \E r \in 1..Len(runs) : FetchAlarmsFails(r)
  \/ \E p \in Plants : DeletePlant(p)
  \/ \E j \in 1..Len(jobs) : PromoteDelayed(j)

SpecErr == Init /\ [][NextErr]_vars

\* ------- SpecStatus: status evaluation over alerts, integration and age
\* successive polls; lastSeenAt is now, 2 h or 24 h old; an operator
\* acknowledges alerts and disables the integration at any moment
NextStatus ==
  \/ startWorker
  \/ SchedulerEnqueue
  \/ \E j \in 1..Len(jobs) : WorkerStart(j)
  \/ \E r \in 1..Len(runs) :
       RunStep(r, {Ok}, {30}, {0, 2 * 3600, 24 * 3600},
               {<<CriticalAlarm>>, <<OneAlarm>>}, {<<>>})
  \/ \E p \in Plants : LiveJobsOf(jobs, p) = {} /\ ManualTrigger(p)
  \/ \E i \in 1..Len(alerts) : AckAlert(i)
  \/ \E p \in Plants : AdminSetIntegration(p, "DISABLED_BY_OPERATOR")

SpecStatus == Init /\ [][NextStatus]_vars

\* ------------- SpecLowGen: low generation against three days of history
\* successive polls; today's energy is 5, 20 or 30 kWh, the history 100 kWh
\* a day once the series of the vendor has been backfilled
NextLowGen ==
  \/ startWorker
  \/ SchedulerEnqueue
  \/ \E j \in 1..Len(jobs) : WorkerStart(j)
  \/ \E r \in 1..Len(runs) :
       RunStep(r, {Ok}, {5, 20, 30}, {0}, {<<ClearedAlarm>>}, {WeekSeries, <<>>})
  \/ \E p \in Plants : LiveJobsOf(jobs, p) = {} /\ ManualTrigger(p)

SpecLowGen == Init /\ [][NextLowGen]_vars

\* --------- SpecLife: the life of an alert under polls and operator actions
\* polls one after the other over more than one period; the vendor reports
\* an alarm from the day before, active or cleared; an operator
\* acknowledges and resolves alerts at any moment, also during a poll
LifeFixtures == {<<OldAlarm>>, <<OldCleared>>}

NextLife ==
  \/ Core
  \/ \E r \in 1..Len(runs) :
       RunStepByAwait(r, {Ok}, {30}, {0}, LifeFixtures, {<<>>})
  \/ \E p \in Plants : LiveJobsOf(jobs, p) = {} /\ ManualTrigger(p)
  \/ \E i \in 1..Len(alerts) : AckAlert(i)
  \/ \E i \in 1..Len(alerts) : ResolveAlert(i)

SpecLife == Init /\ [][NextLife]_vars

\* ------------ SpecDay: polls on both sides of midnight UTC, 21:00 local
\* ten minutes before midnight UTC
Evening == SecondsPerDay - pollingIntervalSeconds

InitEvening ==
  /\ InitState({"p1"}, Evening)
  /\ env = "true"
  /\ main = "redis"

\* the vendor's lastSeenAt is the time of the poll or one period older
DayAges == {0, pollingIntervalSeconds}

NextDay ==
  \/ startWorker
  \/ schedulePlants
  \/ SchedulerEnqueue
  \/ \E j \in 1..Len(jobs) : WorkerStart(j)
  \/ AdvanceTimeUntil(Evening + MaxTime)
  \/ \E r \in 1..Len(runs) :
       RunStep(r, {Ok}, {30}, DayAges, {<<ClearedAlarm>>}, {<<>>})
  \/ \E p \in Plants : LiveJobsOf(jobs, p) = {} /\ ManualTrigger(p)

SpecDay == InitEvening /\ [][NextDay]_vars

\* --------- SpecBrand: jobs of one brand that wait in its queue together
\* an operator triggers polls of the plant while a poll of it holds the lock
NextBrand ==
  \/ startWorker
  \/ SchedulerEnqueue
  \/ \E j \in 1..Len(jobs) : WorkerStartUpTo(j, MaxBrandJobs)
  \/ \E r \in 1..Len(runs) :
       RunStep(r, {Ok}, {30}, {0}, {<<ClearedAlarm>>}, {<<>>})
  \/ \E p \in Plants : LockPresent(p) /\ ManualTriggerUpTo(p, MaxBrandJobs)

SpecBrand == Init /\ [][NextBrand]_vars

\* ------------- SpecRate: many polls of one brand within the same minute
\* an operator triggers the next poll as soon as the poll before it ended
NextRate ==
  \/ startWorker
  \/ SchedulerEnqueue
  \/ \E j \in 1..Len(jobs) : WorkerStartUpTo(j, MaxMinuteJobs)
  \/ \E r \in 1..Len(runs) :
       RunStep(r, {Ok}, {30}, {0}, {<<ClearedAlarm>>}, {<<>>})
  \/ \E p \in Plants : LiveJobsOf(jobs, p) = {} /\ ManualTriggerUpTo(p, MaxMinuteJobs)

SpecRate == Init /\ [][NextRate]_vars

\* ------------------- SpecBoot: the launch of the worker process, any env
\* what INTEGRATION_MOCK_MODE may hold when the process is launched
MockModeValues == {"true", "false", "TRUE", "1", Undefined}

InitBoot ==
  /\ InitState({"p1"}, 0)
  /\ env \in MockModeValues
  /\ main = "off"

NextBoot ==
  \/ Main
  \/ Core
  \/ \E r \in 1..Len(runs) :
       RunStep(r, {Ok, FixtureError}, {30}, {0}, {<<OneAlarm>>}, {<<>>})
  \/ \E j \in 1..Len(jobs) : RetentionEvict(j)

SpecBoot == InitBoot /\ [][NextBoot]_vars

\* -------- SpecFill: backfill sweeps over a table that already holds rows
\* polls one after the other, the later ones triggered by hand; the series
\* holds the two days before today, 100 kWh each, in any order
FillDays == {UtcDay(now) - 2, UtcDay(now) - 1}

FillPoints == [date : FillDays, energyKWh : {100}]

NextFill ==
  \/ startWorker
  \/ SchedulerEnqueue
  \/ \E j \in 1..Len(jobs) : WorkerStart(j)
  \/ AdvanceTimeUntil(pollingIntervalSeconds)
  \/ \E r \in 1..Len(runs) :
       RunStep(r, {Ok}, {30}, {0}, {<<ClearedAlarm>>}, SeqsUpTo(FillPoints, MaxSeries))
  \/ \E p \in Plants : LiveJobsOf(jobs, p) = {} /\ ManualTrigger(p)

SpecFill == Init /\ [][NextFill]_vars

\* ------------- SpecOffline: the offline derivation around the 24 h mark
\* polls one after the other; the vendor's lastSeenAt is now, 24 h old or
\* one second older; an operator acknowledges alerts at any moment
OfflineAges == {0, 24 * 3600, 24 * 3600 + 1}

NextOffline ==
  \/ startWorker
  \/ SchedulerEnqueue
  \/ \E j \in 1..Len(jobs) : WorkerStart(j)
  \/ \E r \in 1..Len(runs) :
       RunStep(r, {Ok}, {30}, OfflineAges, {<<ClearedAlarm>>}, {<<>>})
  \/ \E p \in Plants : LiveJobsOf(jobs, p) = {} /\ ManualTrigger(p)
  \/ \E i \in 1..Len(alerts) : AckAlert(i)

SpecOffline == Init /\ [][NextOffline]_vars

\* ------------- SpecTick: the scheduler's ticks over two plants, two brands
\* an operator pauses integrations between and during ticks and polls
InitTwo == InitWith(Plants)

NextTick ==
  \/ startWorker
  \/ schedulePlants
  \/ SchedulerEnqueue
  \/ AdvanceTimeUntil(pollingIntervalSeconds)
  \/ \E j \in 1..Len(jobs) : WorkerStart(j)
  \/ \E r \in 1..Len(runs) :
       RunStep(r, {Ok}, {30}, {0}, {<<ClearedAlarm>>}, {<<>>})
  \/ \E p \in Plants : AdminSetIntegration(p, "DISABLED_BY_OPERATOR")

SpecTick == InitTwo /\ [][NextTick]_vars

\* ------------ SpecLocal: two plants of two brands, failing adds and polls
\* any queue.add may throw and any adapter call may time out; an
\* administrator deletes plants while their jobs are queued or running
NextLocal ==
  \/ startWorker
  \/ SchedulerEnqueue
  \/ SchedulerEnqueueFails
  \/ \E j \in 1..Len(jobs) : WorkerStart(j)
  \/ \E r \in 1..Len(runs) :
       RunStep(r, {Ok, AdapterError("NETWORK_TIMEOUT", 0)}, {30}, {0},
               {<<ClearedAlarm>>}, {<<>>})
  \/ \E p \in Plants : DeletePlant(p)

SpecLocal == InitTwo /\ [][NextLocal]_vars

\* ------- SpecProc: the life of the worker process, reconnects and signals
\* one plant; the Redis connection is lost and comes back, the process
\* gets SIGTERM at any moment; the model follows the jobs that workers took
\* before the signal
NextProc ==
  \/ startWorker
  \/ RedisReady
  \/ schedulePlants
  \/ \E i \in 1..Len(orphans) : OrphanTick(i)
  \/ SchedulerEnqueue
  \/ \E j \in 1..Len(jobs) : main = "redis" /\ WorkerStart(j)
  \/ \E r \in 1..Len(runs) :
       RunStep(r, {Ok}, {30}, {0}, {<<ClearedAlarm>>}, {<<>>})
  \/ AdvanceTimeUntil(pollingIntervalSeconds)
  \/ shutdown
  \/ ShutdownExit

SpecProc == Init /\ [][NextProc]_vars

\* ================================================================== claims
InsidePcs == {"load", "summary", "status", "alarms", "alarmLoop", "backfill",
              "backfillInsert", "lowgen", "offline", "release"}

Inside(r) == runs[r].pc \in InsidePcs

\* run r takes the step from pc a to pc b
Moves(r, a, b) == runs[r].pc = a /\ runs'[r].pc = b

\* the scheduler submits the ticket of plant p
EnqueueStep(p) ==
  /\ schedPending # <<>>
  /\ Head(schedPending) = p
  /\ schedPending' = Tail(schedPending)
  /\ up' = up

\* C1: at no instant are two executors inside the poll pipeline (between
\* acquiring and releasing lock:plant:P) of the same plant
MutualExclusion ==
  \A r1, r2 \in 1..Len(runs) :
    (r1 # r2 /\ runs[r1].plant = runs[r2].plant) => ~(Inside(r1) /\ Inside(r2))

\* C2: a finishing executor removes lock:plant:P only if the lock that is
\* there is the one it acquired itself
ReleaseIfOwner ==
  [][\A r \in 1..Len(runs) :
       (Moves(r, "release", "log") /\ LockPresent(runs[r].plant))
         => lock[runs[r].plant].owner = r]_vars

\* C3: every job execution that ends has written exactly one PollLog row,
\* with status SUCCESS or ERROR, whatever its exit path
OnePollLogPerRun ==
  [][\A r \in 1..Len(runs) :
       Moves(r, "log", "done")
         => /\ Len(pollLogs') = Len(pollLogs) + 1
            /\ pollLogs'[Len(pollLogs')].run = r
            /\ pollLogs'[Len(pollLogs')].status \in PollStatuses]_vars

\* C4: a job that took the skip branch for a plant whose integration is not
\* ACTIVE leaves the plant, if still not ACTIVE, with status GREY
InactiveSkipGrey ==
  [][\A r \in 1..Len(runs) :
       (/\ Moves(r, "log", "done")
        /\ runs[r].branch = "inactive"
        /\ plant'[runs[r].plant].exists
        /\ plant'[runs[r].plant].integration_status # "ACTIVE")
         => plant'[runs[r].plant].status = "GREY"]_vars

\* C5: for every key (plant_id, type, vendor_alarm_code, device_sn), a
\* missing code or serial taken as the empty string, at most one alert row
\* is in state NEW or ACKED
EmptyIfNull(x) == IF x = Null THEN "" ELSE x

SameAlertKey(a, b) ==
  /\ a.plant = b.plant
  /\ a.type = b.type
  /\ EmptyIfNull(a.vendor_alarm_code) = EmptyIfNull(b.vendor_alarm_code)
  /\ EmptyIfNull(a.device_sn) = EmptyIfNull(b.device_sn)

AlertDedup ==
  \A i, j \in 1..Len(alerts) :
    (i < j /\ alerts[i].state \in ActiveStates /\ alerts[j].state \in ActiveStates)
      => ~SameAlertKey(alerts[i], alerts[j])

\* C6: at most one MetricSnapshot row per (plant_id, date)
SnapshotUnique ==
  \A x, y \in snapshots : (x.plant = y.plant /\ x.date = y.date) => x = y

\* two jobs of one plant are past their backfill inserts at the same time,
\* and the rows of yesterday and today are there
SnapshotWitness ==
  \E r1, r2 \in 1..Len(runs) :
    /\ r1 # r2
    /\ runs[r1].plant = runs[r2].plant
    /\ runs[r1].pc \in {"lowgen", "offline", "release"}
    /\ runs[r2].pc \in {"lowgen", "offline", "release"}
    /\ SeriesDays \subseteq {x.date : x \in SnapshotsAt(snapshots, runs[r1].plant, UtcDay(now))
                                        \cup SnapshotsAt(snapshots, runs[r1].plant, UtcDay(now) - 1)}

\* C7: a submission under the deterministic id while a ticket with that id
\* is pending or running leaves the queue unchanged, and at most one
\* pending or running ticket with that id exists per plant
LatestLive(q, p) == {j \in LiveJobsOf(q, p) : q[j].jobId = "latest"}

DeterministicDedup ==
  /\ [](\A p \in Plants : Cardinality(LatestLive(jobs, p)) <= 1)
  /\ [][\A p \in Plants :
          (EnqueueStep(p) /\ LatestLive(jobs, p) # {}) => jobs' = jobs]_vars

\* two schedulePlants() passes have submitted p1, one ticket exists
DedupWitness ==
  /\ crashes = 0
  /\ nextTick >= 2 * pollingIntervalSeconds
  /\ \A i \in 1..Len(schedPending) : schedPending[i] # "p1"
  /\ Cardinality({j \in 1..Len(jobs) : jobs[j].plant = "p1"}) = 1
  /\ LatestLive(jobs, "p1") # {}

\* C8: a submission made when the plant has no pending or running ticket
\* puts a new ticket in the queue (the plant is polled again every period)
PolledEveryPeriod ==
  [][\A p \in Plants :
       (EnqueueStep(p) /\ LiveJobsOf(jobs, p) = {}) => LiveJobsOf(jobs', p) # {}]_vars

\* C9: a job that acquired lock:plant:P no longer holds it once its
\* execution has left the inner try, whatever the exit path
LockReleasedAtEnd ==
  \A r \in 1..Len(runs) :
    (runs[r].acquired /\ runs[r].pc \in {"log", "done"})
      => ~(lock[runs[r].plant].held /\ lock[runs[r].plant].owner = r)

\* a job that acquired the lock and failed has ended
ReleasedWitness ==
  \E r \in 1..Len(runs) :
    /\ runs[r].acquired /\ runs[r].pc = "done" /\ runs[r].err # "none"
    /\ ~lock[runs[r].plant].held

\* C10: once the lock left by a crashed executor has expired, the next
\* submission for the plant leads to a new job (which can take the lock)
CrashedHolderExpired(p) ==
  /\ lock[p].held
  /\ now >= lock[p].expiry
  /\ runs[lock[p].owner].pc = "crashed"

PolledAgainAfterCrash ==
  [][\A p \in Plants :
       (EnqueueStep(p) /\ CrashedHolderExpired(p) /\ LiveJobsOf(jobs, p) = {})
         => LiveJobsOf(jobs', p) # {}]_vars

\* the job of run r when r ends its attempt
AttemptEnds(r) ==
  /\ Moves(r, "log", "done")
  /\ jobs[runs[r].job].state = "active"
  /\ jobs[runs[r].job].token = r

RetryableTypes == {"NETWORK_TIMEOUT", "RATE_LIMIT_EXCEEDED", "UNKNOWN_ERROR"}

\* C11: a ticket whose attempt fails with a retryable adapter error, and
\* that has an attempt left, is scheduled for another attempt
RetryableRetried ==
  [][\A r \in 1..Len(runs) :
       (/\ AttemptEnds(r)
        /\ runs[r].errType \in RetryableTypes
        /\ jobs[runs[r].job].attemptsMade + 1 < jobs[runs[r].job].attempts)
         => jobs'[runs[r].job].state \in {"delayed", "waiting"}]_vars

\* C12: a retry scheduled after an attempt whose adapter call failed with
\* RATE_LIMIT_EXCEEDED(retryAfterSeconds) is due no earlier than
\* retryAfterSeconds after the failure
RetryAfterHonoured ==
  [][\A r \in 1..Len(runs) :
       (/\ AttemptEnds(r)
        /\ runs[r].errType = "RATE_LIMIT_EXCEEDED"
        /\ jobs'[runs[r].job].state = "delayed")
         => jobs'[runs[r].job].readyAt >= now + runs[r].retryAfterSeconds]_vars

\* C13: a job whose adapter call failed with AUTH_FAILED leaves the plant
\* with integration_status PAUSED_AUTH_ERROR and status GREY
AuthFailurePauses ==
  [][\A r \in 1..Len(runs) :
       (/\ Moves(r, "log", "done")
        /\ runs[r].errType = "AUTH_FAILED"
        /\ plant'[runs[r].plant].exists)
         => /\ plant'[runs[r].plant].integration_status = "PAUSED_AUTH_ERROR"
            /\ plant'[runs[r].plant].status = "GREY"]_vars

\* C14: no MetricSnapshot row is written from a summary whose
\* todayEnergyKWh is negative
InvalidEnergyNotStored ==
  \A x \in snapshots : x.today_energy_kwh >= 0

\* the names the PollLog may give to a failure
ErrorKinds == AdapterErrorTypes \cup {"RATE_LIMITED", "INVALID_DATA", "PLANT_NOT_FOUND",
                                      "UNKNOWN"}

\* C15: a job one of whose steps failed writes a PollLog with status ERROR
\* and adapter_error_type set to the kind of the error
StepFailureLogged ==
  [][\A r \in 1..Len(runs) :
       (/\ Moves(r, "log", "done")
        /\ (runs[r].err # "none" \/ runs[r].branch = "alarmsFailed")
        /\ plant[runs[r].plant].exists)
         => /\ Len(pollLogs') = Len(pollLogs) + 1
            /\ pollLogs'[Len(pollLogs')].status = "ERROR"
            /\ pollLogs'[Len(pollLogs')].adapter_error_type \in ErrorKinds]_vars

\* C16: a job that found the lock held writes a PollLog with job_type POLL,
\* status SUCCESS and adapter_error_type LOCK_SKIPPED
LockSkipLogged ==
  [][\A r \in 1..Len(runs) :
       (/\ Moves(r, "log", "done")
        /\ runs[r].branch = "locked"
        /\ plant[runs[r].plant].exists)
         => /\ Len(pollLogs') = Len(pollLogs) + 1
            /\ pollLogs'[Len(pollLogs')].job_type = "POLL"
            /\ pollLogs'[Len(pollLogs')].status = "SUCCESS"
            /\ pollLogs'[Len(pollLogs')].adapter_error_type = "LOCK_SKIPPED"]_vars

\* run r takes the updatePlantStatus step for a plant that exists
Evaluates(r) == Moves(r, "status", "alarms") /\ plant[runs[r].plant].exists

ActiveCritical(p) ==
  {i \in 1..Len(alerts) : /\ alerts[i].plant = p
                           /\ alerts[i].severity = "CRITICAL"
                           /\ alerts[i].state \in ActiveStates}

\* C17: the status computed for a plant whose integration is not ACTIVE is
\* GREY, whatever its alerts and last_seen_at
NonActiveIsGrey ==
  [][\A r \in 1..Len(runs) :
       (Evaluates(r) /\ plant[runs[r].plant].integration_status # "ACTIVE")
         => plant'[runs[r].plant].status = "GREY"]_vars

\* C18: the status computed for an ACTIVE plant with a CRITICAL alert in
\* state NEW or ACKED is RED
ActiveCriticalIsRed ==
  [][\A r \in 1..Len(runs) :
       (/\ Evaluates(r)
        /\ plant[runs[r].plant].integration_status = "ACTIVE"
        /\ ActiveCritical(runs[r].plant) # {})
         => plant'[runs[r].plant].status = "RED"]_vars

\* C19: for an ACTIVE plant with no active CRITICAL alert and low-gen level
\* NONE the computed status is GREEN below 2 h since last_seen_at, YELLOW
\* from 2 h on and RED from 24 h on
AgeBoundaries ==
  [][\A r \in 1..Len(runs) :
       (/\ Evaluates(r)
        /\ plant[runs[r].plant].integration_status = "ACTIVE"
        /\ ActiveCritical(runs[r].plant) = {}
        /\ LowGenLevel(runs[r].plant) = "NONE")
         => LET age == now - runs[r].lastSeenAt
            IN plant'[runs[r].plant].status =
                 IF age >= 24 * 3600 THEN "RED"
                 ELSE IF age >= 2 * 3600 THEN "YELLOW"
                 ELSE "GREEN"]_vars

\* C20: for an ACTIVE plant the computed status is RED at low-gen level RED
\* and is not GREEN at low-gen level YELLOW
LowGenInStatus ==
  [][\A r \in 1..Len(runs) :
       (Evaluates(r) /\ plant[runs[r].plant].integration_status = "ACTIVE")
         => /\ LowGenLevel(runs[r].plant) = "RED"
                 => plant'[runs[r].plant].status = "RED"
            /\ LowGenLevel(runs[r].plant) = "YELLOW"
                 => plant'[runs[r].plant].status \in {"YELLOW", "RED"}]_vars

\* run r ends a poll that went through the whole pipeline without an error
EndsPoll(r) ==
  /\ Moves(r, "log", "done")
  /\ runs[r].branch = "poll"
  /\ runs[r].err = "none"
  /\ plant[runs[r].plant].exists

NewCritical(p) ==
  {i \in 1..Len(alerts) : /\ alerts[i].plant = p
                           /\ alerts[i].severity = "CRITICAL"
                           /\ alerts[i].state = "NEW"}

\* C21: the status a poll leaves behind reflects the alerts of that same
\* poll: an ACTIVE plant that has a CRITICAL alert in state NEW when its
\* poll ends is RED
StatusAfterDerivations ==
  [][\A r \in 1..Len(runs) :
       (/\ EndsPoll(r)
        /\ plant[runs[r].plant].integration_status = "ACTIVE"
        /\ NewCritical(runs[r].plant) # {})
         => plant'[runs[r].plant].status = "RED"]_vars

\* the order of the severities an adapter may report
SeverityRank(s) ==
  CASE s = "LOW" -> 1 [] s = "MEDIUM" -> 2 [] s = "HIGH" -> 3 [] s = "CRITICAL" -> 4
    [] OTHER -> 0

HigherSeverity(a, b) == IF SeverityRank(a) >= SeverityRank(b) THEN a ELSE b

\* run r takes one iteration of the alarm loop for a plant that exists
Reconciles(r) ==
  /\ runs[r].pc = "alarmLoop"
  /\ runs'[r].pc \in {"alarmLoop", "backfill"}
  /\ plant[runs[r].plant].exists

\* C22: an active alarm whose key matches an active alert inserts no row and
\* leaves the matched row with last_seen_at = now and the higher of the
\* stored and the reported severity
ActiveAlarmUpdatesRow ==
  [][\A r \in 1..Len(runs) :
       Reconciles(r) =>
         LET alarm == Head(runs[r].alarms)
             found == MatchingAlerts(alerts, runs[r].plant, "MOCK_FAULT",
                                     alarm.vendorAlarmCode, alarm.deviceSn)
         IN (alarm.isActive /\ found # {})
              => /\ Len(alerts') = Len(alerts)
                 /\ \A i \in found :
                      /\ alerts'[i].last_seen_at = now
                      /\ alerts'[i].severity =
                           HigherSeverity(alerts[i].severity, alarm.severity)]_vars

\* C23: the severity of an alert row never decreases from one state to the
\* next while the row is in state NEW or ACKED
SeverityNeverDecreases ==
  [][\A i \in 1..Len(alerts) :
       (/\ i <= Len(alerts')
        /\ alerts[i].state \in ActiveStates
        /\ alerts'[i].state \in ActiveStates
        /\ alerts'[i].plant = alerts[i].plant
        /\ alerts'[i].type = alerts[i].type)
         => SeverityRank(alerts'[i].severity) >= SeverityRank(alerts[i].severity)]_vars

\* C30: a worker process launched without INTEGRATION_MOCK_MODE = 'true'
\* never has a Redis connection, a worker, a scheduler timer, a job or a
\* processor invocation, and writes nothing
MockModeGate ==
  ~mockMode =>
    /\ main # "redis"
    /\ ~up
    /\ ~intervalId
    /\ schedPending = <<>>
    /\ jobs = <<>>
    /\ runs = <<>>
    /\ snapshots = {}
    /\ alerts = <<>>
    /\ pollLogs = <<>>

\* a process launched without mock mode has run its top level and exited
MockModeWitness == ~mockMode /\ main = "exited"

\* a step of the worker: every step of a processor invocation, and the
\* start of one, changes runs; the operator's steps do not
WorkerStep == runs' # runs

\* C24: a worker step changes the alert table only by appending rows in
\* state NEW and by moving rows from NEW or ACKED to RESOLVED; a row that is
\* RESOLVED is left as it is
WorkerAlertTransitions ==
  [][WorkerStep =>
       /\ Len(alerts') >= Len(alerts)
       /\ \A i \in 1..Len(alerts) :
            /\ alerts[i].state = "RESOLVED" => alerts'[i] = alerts[i]
            /\ alerts'[i].state # alerts[i].state
                 => alerts[i].state \in ActiveStates /\ alerts'[i].state = "RESOLVED"
       /\ \A i \in (Len(alerts) + 1)..Len(alerts') : alerts'[i].state = "NEW"]_vars

\* C25: a poll that asks for the alarms while the vendor reports an alarm
\* as cleared resolves the active alerts of that alarm: the list the poll
\* receives, reconciled by processAlarms, leaves each of them RESOLVED
ClearedAlarmResolved ==
  [][\A r \in 1..Len(runs), f \in LifeFixtures :
       (FetchAlarms(r, f) /\ plant[runs[r].plant].exists)
         => LET p == runs[r].plant
                after == processAlarms(alerts, p, runs'[r].alarms)
            IN \A k \in 1..Len(f) :
                 ~f[k].isActive
                   => \A i \in MatchingAlerts(alerts, p, "MOCK_FAULT",
                                              f[k].vendorAlarmCode, f[k].deviceSn) :
                        after[i].state = "RESOLVED"]_vars

\* run r takes the snapshot upsert for a plant that exists
Upserts(r) == Moves(r, "summary", "status") /\ plant[runs[r].plant].exists

\* C26: the row a poll writes is the row of its plant whose date is the
\* local calendar date of summary.lastSeenAt in the plant's timezone
SnapshotKeyedByLocalDay ==
  [][\A r \in 1..Len(runs) :
       Upserts(r) =>
         \E x \in snapshots' :
           /\ x.plant = runs[r].plant
           /\ x.last_seen_at = runs'[r].lastSeenAt
           /\ x.date = LocalDay(runs'[r].lastSeenAt, timezone[runs[r].plant])]_vars

\* C27: a poll whose summary (todayEnergyKWh, lastSeenAt) an earlier poll
\* of the plant has stored leaves metric_snapshots as it was
IdempotentUpsert ==
  [][\A r \in 1..Len(runs), e \in {30}, a \in DayAges :
       (/\ GetSummaryAndUpsert(r, Ok, e, a)
        /\ plant[runs[r].plant].exists
        /\ \E x \in snapshots : /\ x.plant = runs[r].plant
                                /\ x.today_energy_kwh = e
                                /\ x.last_seen_at = now - a)
         => snapshots' = snapshots]_vars

RunsOf(b) == {r \in 1..Len(runs) : jobs[runs[r].job].brand = b}

\* C28: the processor invocations of a brand that run at the same time are
\* never more than the maxConcurrentRequests of the brand's adapter
BrandConcurrency ==
  \A b \in Brands : Cardinality(RunsOf(b) \cap LiveRuns) <= maxConcurrentRequests[b]

\* C29: the jobs of a brand started within any window of 60 seconds are
\* never more than the maxRequestsPerMinute of the brand's adapter
BrandRate ==
  \A b \in Brands : \A r \in RunsOf(b) :
    Cardinality({q \in RunsOf(b) : /\ runs[q].startedAt >= runs[r].startedAt
                                   /\ runs[q].startedAt < runs[r].startedAt + 60})
      <= maxRequestsPerMinute[b]


\* C39: a job that loads a plant whose integration_status is not ACTIVE
\* goes straight to the lock release (no adapter call), writes no
\* MetricSnapshot and no Alert, deletes the lock, and the PollLog row it
\* writes has status SUCCESS
AdapterCallPcs == {"summary", "alarms", "backfillInsert"}

InactiveSkipFrame ==
  [][\A r \in 1..Len(runs) :
       LET p == runs[r].plant IN
         /\ (/\ runs[r].pc = "load"
             /\ runs'[r].pc # "load"
             /\ plant[p].exists
             /\ plant[p].integration_status # "ACTIVE")
              => /\ runs'[r].pc = "release"
                 /\ runs'[r].branch = "inactive"
         /\ (runs[r].branch = "inactive" /\ runs'[r] # runs[r])
              => /\ runs'[r].pc \notin AdapterCallPcs
                 /\ snapshots' = snapshots
                 /\ alerts' = alerts
                 /\ Moves(r, "release", "log") => ~lock'[p].held
                 /\ (Moves(r, "log", "done") /\ pollLogs' # pollLogs)
                      => /\ pollLogs'[Len(pollLogs')].run = r
                         /\ pollLogs'[Len(pollLogs')].status = "SUCCESS"]_vars

\* a job has skipped a paused plant and ended: its PollLog row is there and
\* the lock is gone
InactiveSkipWitness ==
  \E r \in 1..Len(runs) :
    /\ runs[r].branch = "inactive"
    /\ runs[r].pc = "done"
    /\ runs[r].acquired
    /\ ~lock[runs[r].plant].held
    /\ plant[runs[r].plant].integration_status # "ACTIVE"
    /\ \E i \in 1..Len(pollLogs) : pollLogs[i].run = r /\ pollLogs[i].status = "SUCCESS"


ActiveOffline(A, p) ==
  {i \in 1..Len(A) : /\ A[i].plant = p
                     /\ A[i].type = "OFFLINE"
                     /\ A[i].state \in ActiveStates}

ActiveLowGen(A, p) ==
  {i \in 1..Len(A) : /\ A[i].plant = p
                     /\ A[i].type = "LOW_GENERATION"
                     /\ A[i].state \in ActiveStates}

HistoryBeforeToday ==
  [][\A r \in 1..Len(runs) :
       LET p == runs[r].plant IN
         (Moves(r, "lowgen", "offline") /\ plant[p].exists)
           => /\ Cardinality(History(p)) <= 7
              /\ \A x \in History(p) : /\ x.date < LocalDay(now, timezone[p])
                                       /\ x.date # runs[r].today]_vars


\* C31: a queue.add that fails for one plant leaves the rest of the tick's
\* plants to be submitted, and a step of a job that has failed, its end
\* included, leaves the brand workers, the scheduler timer, the process, the
\* jobs and the executions of the other plants as they were
FailureIsLocal ==
  [][/\ (Len(schedPending') < Len(schedPending) /\ jobs' = jobs)
          => /\ schedPending' = Tail(schedPending)
             /\ up' = up /\ intervalId' = intervalId /\ main' = main
     /\ \A r \in 1..Len(runs) :
          (/\ runs'[r] # runs[r]
           /\ \/ runs'[r].err # "none"
              \/ (Moves(r, "log", "done") /\ pollLogs' = pollLogs))
            => /\ up' = up /\ intervalId' = intervalId /\ main' = main
               /\ nextTick' = nextTick
               /\ schedPending' = schedPending
               /\ Len(jobs') = Len(jobs)
               /\ \A j \in 1..Len(jobs) :
                    jobs[j].plant # runs[r].plant => jobs'[j] = jobs[j]
               /\ \A q \in 1..Len(runs) : q # r => runs'[q] = runs[q]
               /\ \A p \in Plants : p # runs[r].plant => lock'[p] = lock[p]]_vars

\* the poll of one plant has failed and, after it, a job of the other plant
\* was started and has ended with a SUCCESS row; worker and timer still run
LocalWitness ==
  \E r1, r2 \in 1..Len(runs) :
    /\ r1 < r2
    /\ runs[r1].plant # runs[r2].plant
    /\ runs[r1].pc = "done" /\ runs[r1].err # "none"
    /\ runs[r2].pc = "done" /\ runs[r2].err = "none"
    /\ up /\ intervalId /\ main = "redis"
    /\ \E i, j \in 1..Len(pollLogs) :
         /\ i < j
         /\ pollLogs[i].run = r1 /\ pollLogs[i].status = "ERROR"
         /\ pollLogs[j].run = r2 /\ pollLogs[j].status = "SUCCESS"


\* C34: a tick appends to the plants to submit each plant that is ACTIVE at
\* that moment, once, and no other plant; a submission that adds a ticket
\* adds one ticket, with id poll:plant:{plantId}:latest, to the queue of the
\* plant's brand, and a worker runs a ticket of its own brand's queue only
TickSubmitsActive ==
  [][LET n == Len(schedPending)
         added == SubSeq(schedPending', n + 1, Len(schedPending'))
         active == {p \in Plants : /\ plant[p].exists
                                   /\ plant[p].integration_status = "ACTIVE"}
     IN /\ (nextTick' # nextTick \/ Len(schedPending') > n)
             => /\ SubSeq(schedPending', 1, n) = schedPending
                /\ SeqToSet(added) = active
                /\ Len(added) = Cardinality(active)
        /\ \A p \in Plants :
             (EnqueueStep(p) /\ jobs' # jobs)
               => /\ Len(jobs') = Len(jobs) + 1
                  /\ SubSeq(jobs', 1, Len(jobs)) = jobs
                  /\ jobs'[Len(jobs')].plant = p
                  /\ jobs'[Len(jobs')].jobId = "latest"
                  /\ jobs'[Len(jobs')].brand = brandOf[p]
        /\ Len(runs') > Len(runs)
             => LET r == runs'[Len(runs')]
                IN /\ jobs[r.job].plant = r.plant
                   /\ jobs[r.job].brand = brandOf[r.plant]]_vars

\* the second tick found one plant paused and enumerated the other alone
TickWitness ==
  \E p, q \in Plants :
    /\ p # q
    /\ plant[p].integration_status = "DISABLED_BY_OPERATOR"
    /\ plant[q].integration_status = "ACTIVE"
    /\ nextTick = 2 * pollingIntervalSeconds
    /\ schedPending = <<q>>
    /\ \E j \in 1..Len(jobs) : jobs[j].plant = p /\ jobs[j].jobId = "latest"


\* C32: shutdown stops the scheduler before it closes the workers, and from
\* the call of Scheduler.stop() on no ticket is submitted to a queue, also
\* not by a tick that was under way
NoTicketAfterStop ==
  [][/\ (main = "redis" /\ main' = "shutdown") => (~intervalId' /\ up' = up)
     /\ (main = "shutdown" /\ main' = "shutdown")
          => /\ schedPending' = schedPending
             /\ Len(jobs') = Len(jobs)]_vars

\* C40: whatever the number of 'ready' events, at most one scheduler timer
\* runs and each brand has at most one worker, and no timer runs once
\* shutdown has stopped the scheduler
RunningTimers == Len(orphans) + (IF intervalId THEN 1 ELSE 0)

OneSchedulerOneWorker ==
  /\ RunningTimers <= 1
  /\ workers <= 1
  /\ main = "shutdown" => RunningTimers = 0

====
